---- MODULE Spec2Model ----
(***************************************************************************)
(* The history-based ERD editor of src/unnamed/part_000 (lines 1-715):     *)
(* the App component's state (history, historyIndex, selection,            *)
(* relationship-creation mode, editing id) and the event handlers of App   *)
(* and ErdView.  Every handler runs against the values captured by the     *)
(* render it was created in (the record r below) and queues setter calls;  *)
(* the last setter call for a state cell wins when React re-renders.       *)
(* The model covers the ERD mode with the cardinality symbols shown.       *)
(***************************************************************************)
EXTENDS Integers, Sequences, FiniteSets, TLC

VARIABLES
    history,                \* App: useState history (array of snapshots)
    historyIndex,           \* App: useState historyIndex (0-based cursor)
    editingEntityId,        \* App: useState editingEntityId
    selectedEntityId,       \* App: useState selectedEntityId
    selectedRelationshipId, \* App: useState selectedRelationshipId
    relationshipCreation,   \* App: useState relationshipCreation {active, fromId}
    dragNode,               \* Konva: the Group being dragged and its position
    alertShown,             \* whether the last handled event called alert()
    commits,                \* how many times the last handled event called updateState
    nextEntityId,           \* crypto.randomUUID(): ids handed out to entities
    nextRelationshipId,     \* crypto.randomUUID(): ids handed out to relationships
    undoProbe,              \* observer: the last committed mutation and the undo/redo
                            \* that directly followed it (graph before, graph after)
    cycle,                  \* a relationship list under repeated cardinality clicks
                            \* (used by SpecCardinality only)
    route,                  \* two shapes and the lines calculateRelationshipRenderProps
                            \* returns for them (used by SpecGeometry only)
    plusEntities,           \* plus_page.tsx App: useState entities (object keyed by id)
    plusRelationships,      \* plus_page.tsx App: useState relationships
    dateNow,                \* plus_page.tsx: the value Date.now() returns
    plusEvent               \* plus_page.tsx: the handler the last event ran

vars == <<history, historyIndex, editingEntityId, selectedEntityId,
          selectedRelationshipId, relationshipCreation, dragNode, alertShown, commits,
          nextEntityId, nextRelationshipId, undoProbe, cycle,
          route, plusEntities, plusRelationships, dateNow, plusEvent>>

\* ------------------------------------------------------------------ bounds

MaxEntities == 2
MaxRelationships == 2
MaxHistory == 5
MaxClicks == 6

\* ------------------------------------------------------------ input sets

\* null (ids are 1, 2, ...; JavaScript's null is falsy, every uuid truthy)
NoId == 0

EntityTypes == {"Entity", "Action", "Attribute"}

CARDINALITIES ==
    <<"ONE_AND_ONLY_ONE", "ZERO_OR_ONE", "ONE_OR_MANY", "ZERO_OR_MANY", "ONE", "MANY">>

\* where handleAddEntity spawns a shape (scroll position of the container)
SpawnPositions == {<<50, 50>>}

\* positions a dragged Group can be moved to
DragPositions == {<<50, 50>>, <<400, 100>>}

\* texts typed into the rename textarea
Texts == {""}

\* key events of the window keydown listener: <<e.key, e.ctrlKey || e.metaKey, e.shiftKey>>
KeyEvents ==
    {<<"z", TRUE, FALSE>>, <<"z", TRUE, TRUE>>, <<"z", FALSE, FALSE>>,
     <<"y", TRUE, FALSE>>, <<"y", TRUE, TRUE>>,
     <<"Delete", FALSE, FALSE>>, <<"Backspace", FALSE, FALSE>>}

\* --------------------------------------------------------------- helpers

\* Array.prototype.indexOf on CARDINALITIES (0-based, -1 when absent)
IndexOfCardinality(c) ==
    IF \E i \in 1..Len(CARDINALITIES) : CARDINALITIES[i] = c
    THEN (CHOOSE i \in 1..Len(CARDINALITIES) : CARDINALITIES[i] = c) - 1
    ELSE -1

\* the values a render captures: const { entities, relationships } = history[historyIndex]
Render ==
    [history |-> history, historyIndex |-> historyIndex,
     editingEntityId |-> editingEntityId,
     selectedEntityId |-> selectedEntityId,
     selectedRelationshipId |-> selectedRelationshipId,
     relationshipCreation |-> relationshipCreation,
     alertShown |-> FALSE, commits |-> 0]

entitiesOf(r) == r.history[r.historyIndex + 1].entities
relationshipsOf(r) == r.history[r.historyIndex + 1].relationships

entities == history[historyIndex + 1].entities
relationships == history[historyIndex + 1].relationships

\* ------------------------------------------------------- App: the store

\* handleAddEntity: width/height by kind
DefaultWidth(type) == IF type = "Action" THEN 120 ELSE 150
DefaultHeight(type) == IF type = "Action" THEN 120 ELSE 75

\* variant: the count ignores the kind
CountOfType_all(ents, type) == Len(ents)

\* entities.filter(e => e.type === type).length
CountOfType(ents, type) == Cardinality({i \in 1..Len(ents) : ents[i].type = type})

\* `${type} ${count}`
DefaultName(type, count) == type \o " " \o ToString(count)

\* variant: a commit that keeps the snapshots above the cursor
updateState_noTruncate(r, p, newEntities, newRelationships) ==
    LET newHistory == r.history
    IN [p EXCEPT
          !.history = newHistory \o <<[entities |-> newEntities,
                                       relationships |-> newRelationships]>>,
          !.historyIndex = Len(newHistory),
          !.commits = @ + 1]

\* variant: the new snapshot is written over the snapshot at the cursor
updateState_inPlace(r, p, newEntities, newRelationships) ==
    [p EXCEPT
       !.history = [r.history EXCEPT ![r.historyIndex + 1] =
                       [entities |-> newEntities, relationships |-> newRelationships]],
       !.commits = @ + 1]

\* updateState: both updaters are applied to the captured entities and
\* relationships; the new history is the captured history up to the captured
\* cursor plus the new snapshot.  p is the state queued so far by the running
\* handler: a second call in the same handler overwrites the first.
updateState(r, p, newEntities, newRelationships) ==
    LET newHistory == SubSeq(r.history, 1, r.historyIndex + 1)
    IN [p EXCEPT
          !.history = newHistory \o <<[entities |-> newEntities,
                                       relationships |-> newRelationships]>>,
          !.historyIndex = Len(newHistory),
          !.commits = @ + 1]

\* variant: an undo that skips a snapshot when two lie below the cursor
handleUndo_skip(r, p) ==
    IF r.historyIndex > 1 THEN [p EXCEPT !.historyIndex = r.historyIndex - 2]
    ELSE IF r.historyIndex > 0 THEN [p EXCEPT !.historyIndex = r.historyIndex - 1]
    ELSE p

\* variant: an undo that does not test the cursor
handleUndo_unguarded(r, p) == [p EXCEPT !.historyIndex = r.historyIndex - 1]

\* handleUndo
handleUndo(r, p) ==
    IF r.historyIndex > 0 THEN [p EXCEPT !.historyIndex = r.historyIndex - 1] ELSE p

\* variant: a redo that jumps to the last snapshot
handleRedo_toEnd(r, p) ==
    IF r.historyIndex < Len(r.history) - 1
    THEN [p EXCEPT !.historyIndex = Len(r.history) - 1]
    ELSE p

\* handleRedo
handleRedo(r, p) ==
    IF r.historyIndex < Len(r.history) - 1
    THEN [p EXCEPT !.historyIndex = r.historyIndex + 1]
    ELSE p

\* prev.filter(e => e.id !== selectedEntityId)
WithoutEntity(ents, id) ==
    LET Keep(e) == e.id # id IN SelectSeq(ents, Keep)

\* variant: a cascade that removes only the relationships leaving the shape
WithoutRelationshipsOf_fromOnly(rels, id) ==
    LET Keep(rel) == rel.fromId # id IN SelectSeq(rels, Keep)

\* prev.filter(r => r.fromId !== selectedEntityId && r.toId !== selectedEntityId)
WithoutRelationshipsOf(rels, id) ==
    LET Keep(rel) == rel.fromId # id /\ rel.toId # id IN SelectSeq(rels, Keep)

\* prev.filter(rel => rel.id !== selectedRelationshipId)
WithoutRelationship(rels, id) ==
    LET Keep(rel) == rel.id # id IN SelectSeq(rels, Keep)

\* handleDeleteSelected
handleDeleteSelected(r, p) ==
    IF r.selectedEntityId # NoId
    THEN [updateState(r, p,
                      WithoutEntity(entitiesOf(r), r.selectedEntityId),
                      WithoutRelationshipsOf(relationshipsOf(r), r.selectedEntityId))
            EXCEPT !.selectedEntityId = NoId]
    ELSE IF r.selectedRelationshipId # NoId
    THEN [updateState(r, p, entitiesOf(r),
                      WithoutRelationship(relationshipsOf(r), r.selectedRelationshipId))
            EXCEPT !.selectedRelationshipId = NoId]
    ELSE p

\* handleAddEntity
NewEntity(id, type, pos, count) ==
    [id |-> id, x |-> pos[1], y |-> pos[2],
     width |-> DefaultWidth(type), height |-> DefaultHeight(type),
     name |-> DefaultName(type, count), type |-> type]

handleAddEntity(r, p, type, pos, id) ==
    LET count == CountOfType(entitiesOf(r), type) + 1
    IN updateState(r, p, Append(entitiesOf(r), NewEntity(id, type, pos, count)),
                   relationshipsOf(r))

\* variant: the listener does not look at editingEntityId
handleKeyDown_whileEditing(r, key, ctrlOrMeta, shift) ==
    LET p1 == IF ctrlOrMeta /\ key = "z" THEN handleUndo(r, r) ELSE r
        p2 == IF ctrlOrMeta /\ shift /\ key = "z" THEN handleRedo(r, p1) ELSE p1
        p3 == IF ctrlOrMeta /\ key = "y" THEN handleRedo(r, p2) ELSE p2
    IN IF key \in {"Delete", "Backspace"}
          /\ (r.selectedRelationshipId # NoId \/ r.selectedEntityId # NoId)
       THEN handleDeleteSelected(r, p3)
       ELSE p3

\* handleKeyDown of the window keydown listener
handleKeyDown(r, key, ctrlOrMeta, shift) ==
    IF r.editingEntityId # NoId THEN r
    ELSE
      LET p1 == IF ctrlOrMeta /\ key = "z" THEN handleUndo(r, r) ELSE r
          p2 == IF ctrlOrMeta /\ shift /\ key = "z" THEN handleRedo(r, p1) ELSE p1
          p3 == IF ctrlOrMeta /\ key = "y" THEN handleRedo(r, p2) ELSE p2
      IN IF key \in {"Delete", "Backspace"}
            /\ (r.selectedRelationshipId # NoId \/ r.selectedEntityId # NoId)
         THEN handleDeleteSelected(r, p3)
         ELSE p3

\* variant: the mode starts from the selected shape
toggleRelationshipCreation_fromSelection(r, p) ==
    [p EXCEPT !.editingEntityId = NoId,
              !.selectedRelationshipId = NoId,
              !.selectedEntityId = NoId,
              !.relationshipCreation =
                  [active |-> ~r.relationshipCreation.active,
                   fromId |-> IF r.relationshipCreation.active
                              THEN NoId ELSE r.selectedEntityId]]

\* the "관계 추가" button
toggleRelationshipCreation(r, p) ==
    [p EXCEPT !.editingEntityId = NoId,
              !.selectedRelationshipId = NoId,
              !.selectedEntityId = NoId,
              !.relationshipCreation =
                  [active |-> ~r.relationshipCreation.active, fromId |-> NoId]]

\* handleExportImage, then the layout effect that rasterizes the stage
handleExportImage(r, p) ==
    [p EXCEPT !.selectedRelationshipId = NoId,
              !.selectedEntityId = NoId,
              !.editingEntityId = NoId]

\* ------------------------------------------------- ErdView: the handlers

\* variant: a cycle that stops at the last value
NextCardinality_noWrap(c) ==
    IF IndexOfCardinality(c) + 1 < Len(CARDINALITIES)
    THEN CARDINALITIES[IndexOfCardinality(c) + 2]
    ELSE c

\* CARDINALITIES[(CARDINALITIES.indexOf(current) + 1) % CARDINALITIES.length]
NextCardinality(c) ==
    CARDINALITIES[((IndexOfCardinality(c) + 1) % Len(CARDINALITIES)) + 1]

\* the updater of handleCardinalityChange: prevRels.map(rel => ...)
cycleCardinality(prevRels, relationshipId, point) ==
    [i \in 1..Len(prevRels) |->
        IF prevRels[i].id = relationshipId
        THEN IF point = "start"
             THEN [prevRels[i] EXCEPT !.startCardinality = NextCardinality(@)]
             ELSE [prevRels[i] EXCEPT !.endCardinality = NextCardinality(@)]
        ELSE prevRels[i]]

\* variant: the click on a marker also selects its relationship
handleCardinalityChange_selects(r, p, relationshipId, point) ==
    IF relationshipId = NoId THEN p
    ELSE [updateState(r, p, entitiesOf(r),
                      cycleCardinality(relationshipsOf(r), relationshipId, point))
            EXCEPT !.selectedEntityId = NoId, !.selectedRelationshipId = relationshipId]

\* handleCardinalityChange
handleCardinalityChange(r, p, relationshipId, point) ==
    IF relationshipId = NoId THEN p
    ELSE updateState(r, p, entitiesOf(r),
                     cycleCardinality(relationshipsOf(r), relationshipId, point))

\* variant: the drag also writes the width
moveEntity_resize(prev, id, x, y) ==
    [i \in 1..Len(prev) |->
        IF prev[i].id = id THEN [prev[i] EXCEPT !.x = x, !.y = y, !.width = x] ELSE prev[i]]

\* the updater of handleDragEnd: prev.map(en => en.id === node.id() ? {...en, x, y} : en)
moveEntity(prev, id, x, y) ==
    [i \in 1..Len(prev) |->
        IF prev[i].id = id THEN [prev[i] EXCEPT !.x = x, !.y = y] ELSE prev[i]]

\* variant: a drag-move that commits the position
handleDragMove_commit(r, p, id, x, y) ==
    updateState(r, p, moveEntity(entitiesOf(r), id, x, y), relationshipsOf(r))

\* handleDragMove: recomputes the lines attached to the dragged shape on the
\* Konva nodes; it calls no setter
handleDragMove(r, p, id, x, y) == p

\* handleDragEnd
handleDragEnd(r, p, id, x, y) ==
    updateState(r, p, moveEntity(entitiesOf(r), id, x, y), relationshipsOf(r))

\* the updater of handleFinishEditing: prev.map(e => e.id === editingEntityId ? {...e, name} : e)
renameEntity(prev, id, newName) ==
    [i \in 1..Len(prev) |->
        IF prev[i].id = id THEN [prev[i] EXCEPT !.name = newName] ELSE prev[i]]

\* variant: an empty text is dropped instead of committed
handleFinishEditing_nonEmpty(r, p, newName) ==
    IF r.editingEntityId = NoId THEN p
    ELSE IF newName = "" THEN [p EXCEPT !.editingEntityId = NoId]
    ELSE [updateState(r, p, renameEntity(entitiesOf(r), r.editingEntityId, newName),
                      relationshipsOf(r))
            EXCEPT !.editingEntityId = NoId]

\* handleFinishEditing (the textarea is mounted whenever editingEntityId is set)
handleFinishEditing(r, p, newName) ==
    IF r.editingEntityId = NoId THEN p
    ELSE [updateState(r, p, renameEntity(entitiesOf(r), r.editingEntityId, newName),
                      relationshipsOf(r))
            EXCEPT !.editingEntityId = NoId]

\* variant: Escape commits the text like Enter
handleTextareaKeyDown_escapeCommits(r, p, key, shift, newName) ==
    IF (key = "Enter" /\ ~shift) \/ key = "Escape"
    THEN handleFinishEditing(r, p, newName)
    ELSE p

\* handleTextareaKeyDown
handleTextareaKeyDown(r, p, key, shift, newName) ==
    LET p1 == IF key = "Enter" /\ ~shift THEN handleFinishEditing(r, p, newName) ELSE p
    IN IF key = "Escape" THEN [p1 EXCEPT !.editingEntityId = NoId] ELSE p1

\* variant: a double click that leaves the mode but keeps the pending source
handleEntityDblClick_keepsSource(r, p, id) ==
    [p EXCEPT !.relationshipCreation = [active |-> FALSE,
                                        fromId |-> r.relationshipCreation.fromId],
              !.selectedRelationshipId = NoId,
              !.selectedEntityId = NoId,
              !.editingEntityId = id]

\* variant: a double click that leaves the selection and the mode alone
handleEntityDblClick_keepsSelection(r, p, id) == [p EXCEPT !.editingEntityId = id]

\* handleEntityDblClick
handleEntityDblClick(r, p, id) ==
    [p EXCEPT !.relationshipCreation = [active |-> FALSE, fromId |-> NoId],
              !.selectedRelationshipId = NoId,
              !.selectedEntityId = NoId,
              !.editingEntityId = id]

\* variant: only relationships drawn in the same direction count
alreadyExists_forwardOnly(rels, fromId, toId) ==
    \E i \in 1..Len(rels) : rels[i].fromId = fromId /\ rels[i].toId = toId

\* variant: only relationships drawn in the opposite direction count
alreadyExists_reverseOnly(rels, fromId, toId) ==
    \E i \in 1..Len(rels) : rels[i].fromId = toId /\ rels[i].toId = fromId

\* relationships.some(rel => (from, to) or (to, from))
alreadyExists(rels, fromId, toId) ==
    \E i \in 1..Len(rels) :
        \/ rels[i].fromId = fromId /\ rels[i].toId = toId
        \/ rels[i].fromId = toId /\ rels[i].toId = fromId

\* variant: the relationship is stored from the clicked shape to the source
NewRelationship_reversed(id, fromId, toId) ==
    [id |-> id, fromId |-> toId, toId |-> fromId,
     startCardinality |-> "ONE_AND_ONLY_ONE", endCardinality |-> "ONE_AND_ONLY_ONE"]

NewRelationship(id, fromId, toId) ==
    [id |-> id, fromId |-> fromId, toId |-> toId,
     startCardinality |-> "ONE_AND_ONLY_ONE", endCardinality |-> "ONE_AND_ONLY_ONE"]

\* variant: the clicked shape is never taken for the pending source
sameAsSource_never(rc, id) == FALSE

\* variant: the guard looks for a missing source instead of the clicked one
sameAsSource_unset(rc, id) == rc.fromId = NoId

\* if (relationshipCreation.fromId === id) return;
sameAsSource(rc, id) == rc.fromId = id

\* handleEntityClick
handleEntityClick(r, p, id, newName, newRelationshipId) ==
    LET p1 == IF r.editingEntityId # NoId
              THEN [handleFinishEditing(r, p, newName) EXCEPT !.editingEntityId = NoId]
              ELSE p
        rc == r.relationshipCreation
    IN IF ~rc.active
       THEN [p1 EXCEPT !.selectedRelationshipId = NoId, !.selectedEntityId = id]
       ELSE IF rc.fromId = NoId
       THEN [p1 EXCEPT !.selectedEntityId = NoId,
                       !.relationshipCreation = [active |-> TRUE, fromId |-> id]]
       ELSE IF sameAsSource(rc, id) THEN p1
       ELSE IF alreadyExists(relationshipsOf(r), rc.fromId, id)
       THEN [p1 EXCEPT !.alertShown = TRUE,
                       !.relationshipCreation = [active |-> FALSE, fromId |-> NoId]]
       ELSE [updateState(r, p1, entitiesOf(r),
                         Append(relationshipsOf(r),
                                NewRelationship(newRelationshipId, rc.fromId, id)))
               EXCEPT !.relationshipCreation = [active |-> FALSE, fromId |-> NoId]]

\* variant: selecting a relationship keeps the selected shape
handleRelationshipSelect_keepEntity(r, p, id, newName) ==
    IF id = NoId THEN p
    ELSE LET p1 == IF r.editingEntityId # NoId
                   THEN handleFinishEditing(r, p, newName) ELSE p
         IN [p1 EXCEPT !.editingEntityId = NoId,
                       !.relationshipCreation = [active |-> FALSE, fromId |-> NoId],
                       !.selectedRelationshipId = id]

\* handleRelationshipSelect
handleRelationshipSelect(r, p, id, newName) ==
    IF id = NoId THEN p
    ELSE LET p1 == IF r.editingEntityId # NoId
                   THEN handleFinishEditing(r, p, newName) ELSE p
         IN [p1 EXCEPT !.editingEntityId = NoId,
                       !.relationshipCreation = [active |-> FALSE, fromId |-> NoId],
                       !.selectedEntityId = NoId,
                       !.selectedRelationshipId = id]

\* variant: the click on the canvas leaves the creation mode as it is
handleStageClick_keepsMode(r, p, newName) ==
    LET p1 == IF r.editingEntityId # NoId
              THEN handleFinishEditing(r, p, newName) ELSE p
    IN [p1 EXCEPT !.selectedRelationshipId = NoId,
                  !.selectedEntityId = NoId]

\* handleStageClick (a click on the empty canvas: e.target is the stage)
handleStageClick(r, p, newName) ==
    LET p1 == IF r.editingEntityId # NoId
              THEN handleFinishEditing(r, p, newName) ELSE p
    IN [p1 EXCEPT !.relationshipCreation = [active |-> FALSE, fromId |-> NoId],
                  !.selectedRelationshipId = NoId,
                  !.selectedEntityId = NoId]

\* ------------------------------------------------------------ the events

NoDrag == [id |-> NoId, x |-> 0, y |-> 0]
dragging == dragNode.id # NoId

EntityIds == {entities[i].id : i \in 1..Len(entities)}

\* the relationship lines ErdView renders: both ends must be found
RenderedRelationshipIds ==
    {relationships[i].id : i \in
        {j \in 1..Len(relationships) :
            /\ relationships[j].fromId \in EntityIds
            /\ relationships[j].toId \in EntityIds}}

\* what the rename textarea can hold when a handler reads it: its default
\* value (the name of the shape being renamed) or a typed text
TextValues ==
    IF editingEntityId = NoId THEN {""}
    ELSE Texts \cup {entities[i].name : i \in {j \in 1..Len(entities) :
                                                entities[j].id = editingEntityId}}

NoProbe == [phase |-> "idle", before |-> <<>>, after |-> <<>>]

\* observer of "commit, then undo, then redo": role is "undo" for an event
\* that runs handleUndo alone, "redo" for one that runs handleRedo alone
ProbeAfter(p, role) ==
    IF p.commits >= 1
    THEN [phase |-> "committed",
          before |-> history[historyIndex + 1],
          after |-> p.history[p.historyIndex + 1]]
    ELSE IF role = "undo" /\ undoProbe.phase = "committed"
    THEN [undoProbe EXCEPT !.phase = "undone"]
    ELSE IF role = "redo" /\ undoProbe.phase = "undone"
    THEN [undoProbe EXCEPT !.phase = "redone"]
    ELSE NoProbe

\* React re-renders with the state the handler queued
RerenderAs(p, role) ==
    /\ Len(p.history) <= MaxHistory
    /\ undoProbe' = ProbeAfter(p, role)
    /\ UNCHANGED <<cycle, route, plusEntities, plusRelationships, dateNow, plusEvent>>
    /\ history' = p.history
    /\ historyIndex' = p.historyIndex
    /\ editingEntityId' = p.editingEntityId
    /\ selectedEntityId' = p.selectedEntityId
    /\ selectedRelationshipId' = p.selectedRelationshipId
    /\ relationshipCreation' = p.relationshipCreation
    /\ alertShown' = p.alertShown
    /\ commits' = p.commits

Rerender(p) == RerenderAs(p, "other")

\* a toolbar button can be clicked: the pointer is free, and the rename
\* textarea (which a click on a button blurs first) is closed
ToolbarReady == ~dragging /\ editingEntityId = NoId

\* toolbar: a shape button
AddEntityOf(type, pos) ==
    /\ ToolbarReady
    /\ nextEntityId <= MaxEntities
    /\ Rerender(handleAddEntity(Render, Render, type, pos, nextEntityId))
    /\ nextEntityId' = nextEntityId + 1
    /\ UNCHANGED <<nextRelationshipId, dragNode>>

AddEntity == \E type \in EntityTypes, pos \in SpawnPositions : AddEntityOf(type, pos)

\* toolbar: Undo (disabled at the first snapshot)
UndoButton ==
    /\ ToolbarReady
    /\ historyIndex # 0
    /\ RerenderAs(handleUndo(Render, Render), "undo")
    /\ UNCHANGED <<nextEntityId, nextRelationshipId, dragNode>>

\* toolbar: Redo (disabled at the last snapshot)
RedoButton ==
    /\ ToolbarReady
    /\ historyIndex # Len(history) - 1
    /\ RerenderAs(handleRedo(Render, Render), "redo")
    /\ UNCHANGED <<nextEntityId, nextRelationshipId, dragNode>>

\* toolbar: delete the selection (disabled without a selection)
DeleteButton ==
    /\ ToolbarReady
    /\ selectedEntityId # NoId \/ selectedRelationshipId # NoId
    /\ Rerender(handleDeleteSelected(Render, Render))
    /\ UNCHANGED <<nextEntityId, nextRelationshipId, dragNode>>

\* toolbar: toggle relationship creation
ToggleRelationshipCreation ==
    /\ ToolbarReady
    /\ Rerender(toggleRelationshipCreation(Render, Render))
    /\ UNCHANGED <<nextEntityId, nextRelationshipId, dragNode>>

\* toolbar: export to image
ExportImage ==
    /\ ToolbarReady
    /\ Rerender(handleExportImage(Render, Render))
    /\ UNCHANGED <<nextEntityId, nextRelationshipId, dragNode>>

\* window keydown
KeyRole(key, ctrlOrMeta, shift) ==
    IF editingEntityId # NoId \/ ~ctrlOrMeta THEN "other"
    ELSE IF key = "z" /\ ~shift THEN "undo"
    ELSE IF key = "y" THEN "redo"
    ELSE "other"

KeyDownOf(key, ctrlOrMeta, shift) ==
    /\ RerenderAs(handleKeyDown(Render, key, ctrlOrMeta, shift),
                  KeyRole(key, ctrlOrMeta, shift))
    /\ UNCHANGED <<nextEntityId, nextRelationshipId, dragNode>>

KeyDown == \E e \in KeyEvents : KeyDownOf(e[1], e[2], e[3])

\* canvas: click on a shape
EntityClickOn(id, newName) ==
    /\ ~dragging
    /\ id \in EntityIds
    /\ LET p == handleEntityClick(Render, Render, id, newName, nextRelationshipId)
           created == Len(relationshipsOf(p)) > Len(relationships)
       IN /\ created => nextRelationshipId <= MaxRelationships
          /\ Rerender(p)
          /\ nextRelationshipId' = IF created THEN nextRelationshipId + 1
                                   ELSE nextRelationshipId
    /\ UNCHANGED <<nextEntityId, dragNode>>

EntityClick == \E id \in EntityIds, newName \in TextValues : EntityClickOn(id, newName)

\* canvas: double click on a shape
EntityDblClick ==
    /\ ~dragging
    /\ \E id \in EntityIds : Rerender(handleEntityDblClick(Render, Render, id))
    /\ UNCHANGED <<nextEntityId, nextRelationshipId, dragNode>>

\* canvas: click on a relationship line
RelationshipSelect ==
    /\ ~dragging
    /\ \E id \in RenderedRelationshipIds, newName \in TextValues :
          Rerender(handleRelationshipSelect(Render, Render, id, newName))
    /\ UNCHANGED <<nextEntityId, nextRelationshipId, dragNode>>

\* canvas: click on a cardinality symbol
CardinalityClickOn(id, point) ==
    /\ ~dragging
    /\ id \in RenderedRelationshipIds
    /\ Rerender(handleCardinalityChange(Render, Render, id, point))
    /\ UNCHANGED <<nextEntityId, nextRelationshipId, dragNode>>

CardinalityClick ==
    \E id \in RenderedRelationshipIds, point \in {"start", "end"} :
        CardinalityClickOn(id, point)

\* canvas: click on the empty stage
StageClick ==
    /\ ~dragging
    /\ \E newName \in TextValues : Rerender(handleStageClick(Render, Render, newName))
    /\ UNCHANGED <<nextEntityId, nextRelationshipId, dragNode>>

\* canvas: a shape's Group is dragged to a position; handleDragMove redraws
\* the attached lines on the Konva nodes and sets no React state
DragMove ==
    /\ \E id \in EntityIds, pos \in DragPositions :
          /\ dragNode.id \in {NoId, id}
          /\ dragNode' = [id |-> id, x |-> pos[1], y |-> pos[2]]
          /\ Rerender(handleDragMove(Render, Render, id, pos[1], pos[2]))
    /\ UNCHANGED <<nextEntityId, nextRelationshipId>>

\* canvas: the dragged Group is released where it is
DragEnd ==
    /\ dragging
    /\ Rerender(handleDragEnd(Render, Render, dragNode.id, dragNode.x, dragNode.y))
    /\ dragNode' = NoDrag
    /\ UNCHANGED <<nextEntityId, nextRelationshipId>>

\* rename textarea: blur
TextareaBlur ==
    /\ editingEntityId # NoId
    /\ \E newName \in TextValues : Rerender(handleFinishEditing(Render, Render, newName))
    /\ UNCHANGED <<nextEntityId, nextRelationshipId, dragNode>>

\* rename textarea: keydown
TextareaKeyDownOf(key, shift, newName) ==
    /\ editingEntityId # NoId
    /\ Rerender(handleTextareaKeyDown(Render, Render, key, shift, newName))
    /\ UNCHANGED <<nextEntityId, nextRelationshipId, dragNode>>

TextareaKeyDown ==
    \E key \in {"Enter", "Escape"}, shift \in BOOLEAN, newName \in TextValues :
        TextareaKeyDownOf(key, shift, newName)

NoRoute == [fromEntity |-> <<>>, toEntity |-> <<>>, points |-> <<>>,
            swapped |-> <<>>, computed |-> FALSE]

NoCycle == [relationships |-> <<>>, original |-> <<>>, relationshipId |-> NoId,
            point |-> "start", clicks |-> 0]

\* const [history, setHistory] = useState([{ entities: [], relationships: [] }]) ...
Init ==
    /\ history = <<[entities |-> <<>>, relationships |-> <<>>]>>
    /\ historyIndex = 0
    /\ editingEntityId = NoId
    /\ selectedEntityId = NoId
    /\ selectedRelationshipId = NoId
    /\ relationshipCreation = [active |-> FALSE, fromId |-> NoId]
    /\ dragNode = NoDrag
    /\ alertShown = FALSE
    /\ commits = 0
    /\ nextEntityId = 1
    /\ nextRelationshipId = 1
    /\ undoProbe = NoProbe
    /\ cycle = NoCycle
    /\ route = NoRoute
    /\ plusEntities = <<>>
    /\ plusRelationships = <<>>
    /\ dateNow = 0
    /\ plusEvent = "none"

Next ==
    \/ AddEntity
    \/ UndoButton
    \/ RedoButton
    \/ DeleteButton
    \/ ToggleRelationshipCreation
    \/ ExportImage
    \/ KeyDown
    \/ EntityClick
    \/ EntityDblClick
    \/ RelationshipSelect
    \/ CardinalityClick
    \/ StageClick
    \/ DragMove
    \/ DragEnd
    \/ TextareaBlur
    \/ TextareaKeyDown

Spec == Init /\ [][Next]_vars

\* ------------------------------------------- cardinality clicks in a row

\* the updater of handleCardinalityChange applied again and again to a list
\* of two relationships, for every pair of markers each can carry and every
\* marker that can be clicked
CardinalityValues == {CARDINALITIES[i] : i \in 1..Len(CARDINALITIES)}

CycleLists ==
    {<<[NewRelationship(1, 1, 2) EXCEPT !.startCardinality = a, !.endCardinality = b],
       [NewRelationship(2, 2, 3) EXCEPT !.startCardinality = c]>> :
        a \in CardinalityValues, b \in CardinalityValues, c \in CardinalityValues}

InitCardinality ==
    /\ history = <<[entities |-> <<>>, relationships |-> <<>>]>>
    /\ historyIndex = 0
    /\ editingEntityId = NoId
    /\ selectedEntityId = NoId
    /\ selectedRelationshipId = NoId
    /\ relationshipCreation = [active |-> FALSE, fromId |-> NoId]
    /\ dragNode = NoDrag
    /\ alertShown = FALSE
    /\ commits = 0
    /\ nextEntityId = 1
    /\ nextRelationshipId = 1
    /\ undoProbe = NoProbe
    /\ route = NoRoute
    /\ plusEntities = <<>>
    /\ plusRelationships = <<>>
    /\ dateNow = 0
    /\ plusEvent = "none"
    /\ \E rels \in CycleLists, id \in {1, 2}, point \in {"start", "end"} :
          cycle = [relationships |-> rels, original |-> rels, relationshipId |-> id,
                   point |-> point, clicks |-> 0]

CycleClick ==
    /\ cycle.clicks < MaxClicks
    /\ cycle' = [cycle EXCEPT
                    !.relationships = cycleCardinality(@, cycle.relationshipId, cycle.point),
                    !.clicks = @ + 1]
    /\ UNCHANGED <<history, historyIndex, editingEntityId, selectedEntityId,
                   selectedRelationshipId, relationshipCreation, dragNode, alertShown,
                   commits, nextEntityId, nextRelationshipId, undoProbe,
                   route, plusEntities, plusRelationships, dateNow, plusEvent>>

NextCardinalitySpec == CycleClick

SpecCardinality == InitCardinality /\ [][NextCardinalitySpec]_vars

\* ------------------------------------ the second iteration (lines 717-1264)
\* App and ErdView are declared again; updateState, handleDeleteSelected,
\* handleAddEntity, handleEntityDblClick, handleCardinalityChange, the toggle
\* button and handleExportImage have the same text as in the first iteration
\* and are shared. The definitions below are the ones whose text differs.

\* const editingEntity = entities.find(e => e.id === editingEntityId);
\* the textarea is rendered (and textareaRef.current set) only when it is found
editingEntity2(r) ==
    \E i \in 1..Len(entitiesOf(r)) : entitiesOf(r)[i].id = r.editingEntityId

handleUndo2(r, p) ==
    IF r.historyIndex > 0 THEN [p EXCEPT !.historyIndex = r.historyIndex - 1] ELSE p

handleRedo2(r, p) ==
    IF r.historyIndex < Len(r.history) - 1
    THEN [p EXCEPT !.historyIndex = r.historyIndex + 1]
    ELSE p

\* handleKeyDown of the second iteration: no test of editingEntityId
handleKeyDown2(r, key, ctrlOrMeta, shift) ==
    LET p1 == IF ctrlOrMeta /\ key = "z" THEN handleUndo2(r, r) ELSE r
        p2 == IF ctrlOrMeta /\ shift /\ key = "z" THEN handleRedo2(r, p1) ELSE p1
        p3 == IF ctrlOrMeta /\ key = "y" THEN handleRedo2(r, p2) ELSE p2
    IN IF key \in {"Delete", "Backspace"}
          /\ (r.selectedRelationshipId # NoId \/ r.selectedEntityId # NoId)
       THEN handleDeleteSelected(r, p3)
       ELSE p3

handleEntityMove2(r, p, id, x, y) ==
    updateState(r, p, moveEntity(entitiesOf(r), id, x, y), relationshipsOf(r))

handleFinishEditing2(r, p, newName) ==
    IF r.editingEntityId = NoId \/ ~editingEntity2(r) THEN p
    ELSE [updateState(r, p, renameEntity(entitiesOf(r), r.editingEntityId, newName),
                      relationshipsOf(r))
            EXCEPT !.editingEntityId = NoId]

handleTextareaKeyDown2(r, p, key, shift, newName) ==
    LET p1 == IF key = "Enter" /\ ~shift THEN handleFinishEditing2(r, p, newName) ELSE p
    IN IF key = "Escape" THEN [p1 EXCEPT !.editingEntityId = NoId] ELSE p1

\* handleEntityClick of the second iteration: an open rename is left alone
handleEntityClick2(r, p, id, newRelationshipId) ==
    LET rc == r.relationshipCreation
    IN IF ~rc.active
       THEN [p EXCEPT !.selectedRelationshipId = NoId, !.selectedEntityId = id]
       ELSE IF rc.fromId = NoId
       THEN [p EXCEPT !.selectedEntityId = NoId,
                      !.relationshipCreation = [active |-> TRUE, fromId |-> id]]
       ELSE IF rc.fromId = id THEN p
       ELSE IF alreadyExists(relationshipsOf(r), rc.fromId, id)
       THEN [p EXCEPT !.alertShown = TRUE,
                      !.relationshipCreation = [active |-> FALSE, fromId |-> NoId]]
       ELSE [updateState(r, p, entitiesOf(r),
                         Append(relationshipsOf(r),
                                NewRelationship(newRelationshipId, rc.fromId, id)))
               EXCEPT !.relationshipCreation = [active |-> FALSE, fromId |-> NoId]]

handleRelationshipSelect2(r, p, id) ==
    [p EXCEPT !.editingEntityId = NoId,
              !.relationshipCreation = [active |-> FALSE, fromId |-> NoId],
              !.selectedEntityId = NoId,
              !.selectedRelationshipId = id]

handleStageClick2(r, p) ==
    [p EXCEPT !.editingEntityId = NoId,
              !.relationshipCreation = [active |-> FALSE, fromId |-> NoId],
              !.selectedRelationshipId = NoId,
              !.selectedEntityId = NoId]

\* React re-renders with the state the handler queued
Rerender2(p) ==
    /\ Len(p.history) <= MaxHistory
    /\ history' = p.history
    /\ historyIndex' = p.historyIndex
    /\ editingEntityId' = p.editingEntityId
    /\ selectedEntityId' = p.selectedEntityId
    /\ selectedRelationshipId' = p.selectedRelationshipId
    /\ relationshipCreation' = p.relationshipCreation
    /\ alertShown' = p.alertShown
    /\ commits' = p.commits
    /\ UNCHANGED <<undoProbe, cycle, route, plusEntities, plusRelationships, dateNow, plusEvent>>

\* a toolbar click takes the focus from the textarea first, when one is rendered
ToolbarReady2 == ~dragging /\ ~(editingEntityId # NoId /\ editingEntity2(Render))

\* the shape buttons pressed here (Attribute differs from Entity in name only)
EntityTypes2 == {"Entity", "Action"}

AddEntity2 ==
    /\ ToolbarReady2
    /\ nextEntityId <= MaxEntities
    /\ \E type \in EntityTypes2, pos \in SpawnPositions :
          Rerender2(handleAddEntity(Render, Render, type, pos, nextEntityId))
    /\ nextEntityId' = nextEntityId + 1
    /\ UNCHANGED <<nextRelationshipId, dragNode>>

UndoButton2 ==
    /\ ToolbarReady2
    /\ historyIndex # 0
    /\ Rerender2(handleUndo2(Render, Render))
    /\ UNCHANGED <<nextEntityId, nextRelationshipId, dragNode>>

RedoButton2 ==
    /\ ToolbarReady2
    /\ historyIndex # Len(history) - 1
    /\ Rerender2(handleRedo2(Render, Render))
    /\ UNCHANGED <<nextEntityId, nextRelationshipId, dragNode>>

DeleteButton2 ==
    /\ ToolbarReady2
    /\ selectedEntityId # NoId \/ selectedRelationshipId # NoId
    /\ Rerender2(handleDeleteSelected(Render, Render))
    /\ UNCHANGED <<nextEntityId, nextRelationshipId, dragNode>>

ToggleRelationshipCreation2 ==
    /\ ToolbarReady2
    /\ Rerender2(toggleRelationshipCreation(Render, Render))
    /\ UNCHANGED <<nextEntityId, nextRelationshipId, dragNode>>

ExportImage2 ==
    /\ ToolbarReady2
    /\ Rerender2(handleExportImage(Render, Render))
    /\ UNCHANGED <<nextEntityId, nextRelationshipId, dragNode>>

KeyDownOf2(key, ctrlOrMeta, shift) ==
    /\ Rerender2(handleKeyDown2(Render, key, ctrlOrMeta, shift))
    /\ UNCHANGED <<nextEntityId, nextRelationshipId, dragNode>>

KeyDown2 == \E e \in KeyEvents : KeyDownOf2(e[1], e[2], e[3])

EntityClick2 ==
    /\ ~dragging
    /\ \E id \in EntityIds :
          LET p == handleEntityClick2(Render, Render, id, nextRelationshipId)
              created == Len(relationshipsOf(p)) > Len(relationships)
          IN /\ created => nextRelationshipId <= MaxRelationships
             /\ Rerender2(p)
             /\ nextRelationshipId' = IF created THEN nextRelationshipId + 1
                                      ELSE nextRelationshipId
    /\ UNCHANGED <<nextEntityId, dragNode>>

EntityDblClick2 ==
    /\ ~dragging
    /\ \E id \in EntityIds : Rerender2(handleEntityDblClick(Render, Render, id))
    /\ UNCHANGED <<nextEntityId, nextRelationshipId, dragNode>>

RelationshipSelect2 ==
    /\ ~dragging
    /\ \E id \in RenderedRelationshipIds :
          Rerender2(handleRelationshipSelect2(Render, Render, id))
    /\ UNCHANGED <<nextEntityId, nextRelationshipId, dragNode>>

CardinalityClick2 ==
    /\ ~dragging
    /\ \E id \in RenderedRelationshipIds, point \in {"start", "end"} :
          Rerender2(handleCardinalityChange(Render, Render, id, point))
    /\ UNCHANGED <<nextEntityId, nextRelationshipId, dragNode>>

StageClick2 ==
    /\ ~dragging
    /\ Rerender2(handleStageClick2(Render, Render))
    /\ UNCHANGED <<nextEntityId, nextRelationshipId, dragNode>>

\* the Group has no onDragMove: only the Konva node moves
DragMove2 ==
    /\ \E id \in EntityIds, pos \in DragPositions :
          /\ dragNode.id \in {NoId, id}
          /\ dragNode' = [id |-> id, x |-> pos[1], y |-> pos[2]]
    /\ Rerender2(Render)
    /\ UNCHANGED <<nextEntityId, nextRelationshipId>>

\* onDragEnd={(e) => onDragEnd(entity.id, e.target.x(), e.target.y())}
DragEnd2 ==
    /\ dragging
    /\ Rerender2(handleEntityMove2(Render, Render, dragNode.id, dragNode.x, dragNode.y))
    /\ dragNode' = NoDrag
    /\ UNCHANGED <<nextEntityId, nextRelationshipId>>

TextareaBlur2 ==
    /\ editingEntityId # NoId
    /\ editingEntity2(Render)
    /\ \E newName \in TextValues : Rerender2(handleFinishEditing2(Render, Render, newName))
    /\ UNCHANGED <<nextEntityId, nextRelationshipId, dragNode>>

TextareaKeyDown2 ==
    /\ editingEntityId # NoId
    /\ editingEntity2(Render)
    /\ \E key \in {"Enter", "Escape"}, shift \in BOOLEAN, newName \in TextValues :
          Rerender2(handleTextareaKeyDown2(Render, Render, key, shift, newName))
    /\ UNCHANGED <<nextEntityId, nextRelationshipId, dragNode>>

NextSecond ==
    \/ AddEntity2
    \/ UndoButton2
    \/ RedoButton2
    \/ DeleteButton2
    \/ ToggleRelationshipCreation2
    \/ ExportImage2
    \/ KeyDown2
    \/ EntityClick2
    \/ EntityDblClick2
    \/ RelationshipSelect2
    \/ CardinalityClick2
    \/ StageClick2
    \/ DragMove2
    \/ DragEnd2
    \/ TextareaBlur2
    \/ TextareaKeyDown2

SpecSecond == Init /\ [][NextSecond]_vars

\* ------------------------------------- calculateRelationshipRenderProps
\* The function is given two shapes and returns the line between them and
\* the placement of the two cardinality symbols.  Coordinates are kept in
\* half units (every value below is twice the value of the code), so that
\* e.x + e.width / 2 is an integer; Math.hypot is kept as its square, which
\* orders distances in the same way.  The symbol placements (atan2, cos,
\* sin of the chosen line) are not part of the model.

MaxCoord == 3
MaxExtent == 2

\* the x, y, width and height of the shapes the function is applied to
Shapes == [x : 0..MaxCoord, y : 0..MaxCoord, width : 1..MaxExtent, height : 1..MaxExtent]

\* getAnchors: top, right, bottom, left
getAnchors(e) ==
    <<[x |-> 2 * e.x + e.width, y |-> 2 * e.y],
      [x |-> 2 * e.x + 2 * e.width, y |-> 2 * e.y + e.height],
      [x |-> 2 * e.x + e.width, y |-> 2 * e.y + 2 * e.height],
      [x |-> 2 * e.x, y |-> 2 * e.y + e.height]>>

\* Math.hypot(dx, dy), squared
hypot2(dx, dy) == dx * dx + dy * dy

\* let minDistance = Infinity
Infinity == [infinite |-> TRUE, distance |-> 0]

\* variant: a later pair at the same distance replaces the best pair
closer_orEqual(distance, minDistance) ==
    minDistance.infinite \/ distance <= minDistance.distance

\* if (distance < minDistance)
closer(distance, minDistance) ==
    minDistance.infinite \/ distance < minDistance.distance

\* the two nested loops, from the k-th of the 16 pairs on (k counts from 0:
\* the outer loop is over fromAnchors, the inner one over toAnchors)
RECURSIVE scanAnchors(_, _, _, _)
scanAnchors(fromAnchors, toAnchors, k, acc) ==
    IF k = Len(fromAnchors) * Len(toAnchors) THEN acc
    ELSE LET fromPoint == fromAnchors[(k \div Len(toAnchors)) + 1]
             toPoint == toAnchors[(k % Len(toAnchors)) + 1]
             distance == hypot2(fromPoint.x - toPoint.x, fromPoint.y - toPoint.y)
         IN scanAnchors(fromAnchors, toAnchors, k + 1,
                        IF closer(distance, acc.minDistance)
                        THEN [minDistance |-> [infinite |-> FALSE, distance |-> distance],
                              bestPoints |-> [from |-> fromPoint, to |-> toPoint]]
                        ELSE acc)

\* calculateRelationshipRenderProps(fromEntity, toEntity).points
calculateRelationshipRenderProps(fromEntity, toEntity) ==
    LET fromAnchors == getAnchors(fromEntity)
        toAnchors == getAnchors(toEntity)
        start == [minDistance |-> Infinity,
                  bestPoints |-> [from |-> fromAnchors[1], to |-> toAnchors[1]]]
        bestPoints == scanAnchors(fromAnchors, toAnchors, 0, start).bestPoints
    IN [points |-> <<bestPoints.from.x, bestPoints.from.y,
                     bestPoints.to.x, bestPoints.to.y>>]

InitGeometry ==
    /\ history = <<[entities |-> <<>>, relationships |-> <<>>]>>
    /\ historyIndex = 0
    /\ editingEntityId = NoId
    /\ selectedEntityId = NoId
    /\ selectedRelationshipId = NoId
    /\ relationshipCreation = [active |-> FALSE, fromId |-> NoId]
    /\ dragNode = NoDrag
    /\ alertShown = FALSE
    /\ commits = 0
    /\ nextEntityId = 1
    /\ nextRelationshipId = 1
    /\ undoProbe = NoProbe
    /\ cycle = NoCycle
    /\ plusEntities = <<>>
    /\ plusRelationships = <<>>
    /\ dateNow = 0
    /\ plusEvent = "none"
    /\ \E a \in Shapes, b \in Shapes :
          route = [fromEntity |-> a, toEntity |-> b, points |-> <<>>,
                   swapped |-> <<>>, computed |-> FALSE]

\* RelationshipLine renders the line from fromEntity to toEntity; swapped is
\* the line the function returns for the same shapes in the other order
ComputeRoute ==
    /\ ~route.computed
    /\ route' = [route EXCEPT
                    !.points = calculateRelationshipRenderProps(
                                   route.fromEntity, route.toEntity).points,
                    !.swapped = calculateRelationshipRenderProps(
                                    route.toEntity, route.fromEntity).points,
                    !.computed = TRUE]
    /\ UNCHANGED <<history, historyIndex, editingEntityId, selectedEntityId,
                   selectedRelationshipId, relationshipCreation, dragNode, alertShown,
                   commits, nextEntityId, nextRelationshipId, undoProbe, cycle,
                   plusEntities, plusRelationships, dateNow, plusEvent>>

NextGeometry == ComputeRoute

SpecGeometry == InitGeometry /\ [][NextGeometry]_vars

\* ------------------------------------------------ the editor of plus_page
\* App of src/plus_page.tsx keeps the shapes in an object keyed by id and
\* the relationships in an array, without a history.  Ids are built from
\* Date.now(): an id is modelled as the pair of its prefix and the clock
\* value it was built from.  The setters of this editor take updater
\* functions, so every handler acts on the current state.  The rename
\* textarea, dragging and the cardinality menu are not part of this model.

MaxTime == 1
MaxPlusEntities == 2
MaxPlusRelationships == 2

\* null
PlusNull == [kind |-> "null", time |-> 0]

\* '': the id of a Konva node that was given none
EmptyId == [kind |-> "", time |-> 0]

\* if (id): null and '' are falsy
truthy(id) == id # PlusNull /\ id # EmptyId

toLowerCase(type) ==
    CASE type = "Entity" -> "entity"
      [] type = "Action" -> "action"
      [] type = "Attribute" -> "attribute"

\* `${type.toLowerCase()}_${Date.now()}`
PlusEntityId(type, now) == [kind |-> toLowerCase(type), time |-> now]

\* `rel_${Date.now()}`
PlusRelationshipId(now) == [kind |-> "rel", time |-> now]

\* what the handlers of one render see
PlusRender ==
    [entities |-> plusEntities, relationships |-> plusRelationships,
     selectedEntityId |-> selectedEntityId,
     selectedRelationshipId |-> selectedRelationshipId,
     relationshipCreation |-> relationshipCreation,
     editingEntityId |-> editingEntityId,
     alertShown |-> FALSE]

\* id in obj
hasKey(obj, id) == \E i \in 1..Len(obj) : obj[i].id = id

\* { ...prev, [id]: value }: a key that is already present keeps its place
\* and gets the new value
setKey(obj, id, value) ==
    IF hasKey(obj, id)
    THEN [i \in 1..Len(obj) |-> IF obj[i].id = id THEN value ELSE obj[i]]
    ELSE Append(obj, value)

\* delete obj[id]
deleteKey(obj, id) == SelectSeq(obj, LAMBDA e : e.id # id)

\* addEntity
addEntity(s, type, now) ==
    LET id == PlusEntityId(type, now)
        newEntity == [id |-> id, x |-> 100, y |-> 100, width |-> 150, height |-> 75,
                      name |-> type, type |-> type]
    IN [s EXCEPT !.entities = setKey(@, id, newEntity)]

\* deleteSelected: the two ifs test the captured selection, the updaters
\* are applied one after the other
deleteSelected(s) ==
    LET s1 == IF truthy(s.selectedEntityId)
              THEN [s EXCEPT
                      !.entities = deleteKey(@, s.selectedEntityId),
                      !.relationships =
                          SelectSeq(@, LAMBDA rel : /\ rel.fromId # s.selectedEntityId
                                                    /\ rel.toId # s.selectedEntityId),
                      !.selectedEntityId = PlusNull]
              ELSE s
    IN IF truthy(s.selectedRelationshipId)
       THEN [s1 EXCEPT
               !.relationships = SelectSeq(@, LAMBDA rel : rel.id # s.selectedRelationshipId),
               !.selectedRelationshipId = PlusNull]
       ELSE s1

\* toggleRelationshipCreation of plus_page
toggleRelationshipCreationPlus(s) ==
    IF ~truthy(s.selectedEntityId) /\ ~s.relationshipCreation.active
    THEN [s EXCEPT !.alertShown = TRUE]
    ELSE [s EXCEPT !.relationshipCreation =
             [active |-> ~@.active,
              fromId |-> IF ~@.active THEN s.selectedEntityId ELSE PlusNull]]

\* handleEntityClick of plus_page; entityId is e.target.id()
handleEntityClickPlus(s, entityId, now) ==
    IF /\ s.relationshipCreation.active
       /\ truthy(s.relationshipCreation.fromId)
       /\ s.relationshipCreation.fromId # entityId
    THEN LET newRelationship ==
                 [id |-> PlusRelationshipId(now),
                  fromId |-> s.relationshipCreation.fromId, toId |-> entityId,
                  startCardinality |-> "ONE", endCardinality |-> "ONE"]
         IN [s EXCEPT
               !.relationships = Append(@, newRelationship),
               !.relationshipCreation = [active |-> FALSE, fromId |-> PlusNull]]
    ELSE [s EXCEPT !.selectedEntityId = entityId,
                   !.selectedRelationshipId = PlusNull]

\* handleRelationshipClick
handleRelationshipClick(s, id) ==
    [s EXCEPT !.selectedRelationshipId = id, !.selectedEntityId = PlusNull]

\* handleStageClick of plus_page, for a click on the empty Stage
handleStageClickPlus(s) ==
    [s EXCEPT
       !.selectedEntityId = PlusNull,
       !.selectedRelationshipId = PlusNull,
       !.editingEntityId = PlusNull,
       !.relationshipCreation = IF @.active THEN [active |-> FALSE, fromId |-> PlusNull]
                                ELSE @]

\* the keydown listener of plus_page, with the focus outside the textarea
handleKeyDownPlus(s, key) ==
    IF key \in {"Delete", "Backspace"} THEN deleteSelected(s)
    ELSE IF key = "Escape"
    THEN [s EXCEPT
            !.relationshipCreation = [active |-> FALSE, fromId |-> PlusNull],
            !.selectedEntityId = PlusNull,
            !.selectedRelationshipId = PlusNull]
    ELSE s

\* the keys of the entities object
PlusEntityIds == {plusEntities[i].id : i \in 1..Len(plusEntities)}

\* RelationshipComponent returns null unless both ends are in entities
PlusRenderedRelationshipIds ==
    {plusRelationships[i].id : i \in
        {j \in 1..Len(plusRelationships) :
            /\ plusRelationships[j].fromId \in PlusEntityIds
            /\ plusRelationships[j].toId \in PlusEntityIds}}

\* what e.target.id() can be for a click inside a shape's Group: the id of
\* the Group, or '' when the event reports the child node, which has no id
PlusClickTargets == PlusEntityIds \cup {EmptyId}

PlusRerender(s, event) ==
    /\ plusEvent' = event
    /\ Len(s.entities) <= MaxPlusEntities
    /\ Len(s.relationships) <= MaxPlusRelationships
    /\ plusEntities' = s.entities
    /\ plusRelationships' = s.relationships
    /\ selectedEntityId' = s.selectedEntityId
    /\ selectedRelationshipId' = s.selectedRelationshipId
    /\ relationshipCreation' = s.relationshipCreation
    /\ editingEntityId' = s.editingEntityId
    /\ alertShown' = s.alertShown
    /\ UNCHANGED <<history, historyIndex, dragNode, commits, nextEntityId,
                   nextRelationshipId, undoProbe, cycle, route, dateNow>>

InitPlus ==
    /\ history = <<[entities |-> <<>>, relationships |-> <<>>]>>
    /\ historyIndex = 0
    /\ editingEntityId = PlusNull
    /\ selectedEntityId = PlusNull
    /\ selectedRelationshipId = PlusNull
    /\ relationshipCreation = [active |-> FALSE, fromId |-> PlusNull]
    /\ dragNode = NoDrag
    /\ alertShown = FALSE
    /\ commits = 0
    /\ nextEntityId = 1
    /\ nextRelationshipId = 1
    /\ undoProbe = NoProbe
    /\ cycle = NoCycle
    /\ route = NoRoute
    /\ plusEntities = <<>>
    /\ plusRelationships = <<>>
    /\ dateNow = 0
    /\ plusEvent = "none"

\* the clock read by Date.now() advances between two events, or does not
PlusTick ==
    /\ dateNow < MaxTime
    /\ dateNow' = dateNow + 1
    /\ plusEvent' = "none"
    /\ UNCHANGED <<history, historyIndex, editingEntityId, selectedEntityId,
                   selectedRelationshipId, relationshipCreation, dragNode, alertShown,
                   commits, nextEntityId, nextRelationshipId, undoProbe, cycle, route,
                   plusEntities, plusRelationships>>

PlusAddEntity ==
    \E type \in EntityTypes : PlusRerender(addEntity(PlusRender, type, dateNow), "addEntity")

PlusDeleteButton ==
    /\ truthy(selectedEntityId) \/ truthy(selectedRelationshipId)
    /\ PlusRerender(deleteSelected(PlusRender), "deleteSelected")

PlusToggleRelationshipCreation ==
    PlusRerender(toggleRelationshipCreationPlus(PlusRender), "toggleRelationshipCreation")

PlusEntityClick ==
    \E entityId \in PlusClickTargets :
        PlusRerender(handleEntityClickPlus(PlusRender, entityId, dateNow),
                     "handleEntityClick")

PlusRelationshipClick ==
    \E id \in PlusRenderedRelationshipIds :
        PlusRerender(handleRelationshipClick(PlusRender, id), "handleRelationshipClick")

PlusStageClick == PlusRerender(handleStageClickPlus(PlusRender), "handleStageClick")

PlusKeyDown ==
    \E key \in {"Delete", "Backspace", "Escape", "z"} :
        PlusRerender(handleKeyDownPlus(PlusRender, key), "handleKeyDown")

NextPlus ==
    \/ PlusTick
    \/ PlusAddEntity
    \/ PlusDeleteButton
    \/ PlusToggleRelationshipCreation
    \/ PlusEntityClick
    \/ PlusRelationshipClick
    \/ PlusStageClick
    \/ PlusKeyDown

SpecPlus == InitPlus /\ [][NextPlus]_vars

\* ------------------------------------- two mutations within one render
\* updateState and the handlers that call it are closures of one render: a
\* handler that runs before the component has rendered again reads the same
\* history, historyIndex, entities and relationships as the one before it.

\* the two committed mutations issued here: a shape button, or the release
\* of a dragged shape
BatchedMutations ==
    [kind : {"add"}, type : EntityTypes, id : {NoId}, pos : SpawnPositions]
    \cup [kind : {"move"}, type : {"Entity"}, id : EntityIds, pos : DragPositions]

\* the handler of mutation m, given the id a new shape gets
applyMutation(r, p, m, newId) ==
    IF m.kind = "add" THEN handleAddEntity(r, p, m.type, m.pos, newId)
    ELSE handleDragEnd(r, p, m.id, m.pos[1], m.pos[2])

\* two handlers run one after the other against the same render; React
\* renders once, with what was set last
BatchedPair ==
    /\ ToolbarReady
    /\ \E m1 \in BatchedMutations, m2 \in BatchedMutations :
          LET adds1 == IF m1.kind = "add" THEN 1 ELSE 0
              adds2 == IF m2.kind = "add" THEN 1 ELSE 0
              p1 == applyMutation(Render, Render, m1, nextEntityId)
              p2 == applyMutation(Render, p1, m2, nextEntityId + adds1)
          IN /\ nextEntityId + adds1 + adds2 <= MaxEntities + 1
             /\ nextEntityId' = nextEntityId + adds1 + adds2
             /\ Rerender(p2)
    /\ UNCHANGED <<nextRelationshipId, dragNode>>

NextBatched ==
    \/ AddEntity
    \/ UndoButton
    \/ RedoButton
    \/ DragMove
    \/ DragEnd
    \/ BatchedPair

SpecBatched == Init /\ [][NextBatched]_vars

\* ------------------------------------------------------------ the claims

\* the snapshot at the 0-based history index i
Snapshot(i) == history[i + 1]

ElementsOf(seq) == {seq[i] : i \in 1..Len(seq)}

\* the history after a commit issued at the current cursor: the snapshots up
\* to the cursor are kept, one snapshot follows, and the cursor is on it
OneSnapshotAppended ==
    /\ Len(history') = historyIndex + 2
    /\ SubSeq(history', 1, historyIndex + 1) = SubSeq(history, 1, historyIndex + 1)
    /\ historyIndex' = historyIndex + 1

Inactive == [active |-> FALSE, fromId |-> NoId]

\* C1: in every snapshot of the history no two relationships connect the same
\* unordered pair {fromId, toId}.
C1_UniquePairs ==
    \A k \in 1..Len(history) :
        LET rels == history[k].relationships
        IN \A i, j \in 1..Len(rels) :
              i # j => {rels[i].fromId, rels[i].toId} # {rels[j].fromId, rels[j].toId}

\* two relationships have been created on the only pair of shapes, one after
\* the other was removed or undone, and a snapshot holds a relationship
C1_Witness ==
    /\ nextRelationshipId = 3
    /\ relationships # <<>>
    /\ \E k \in 1..Len(history) : history[k].relationships = <<>> /\ Len(history[k].entities) = 2

\* C2: with a pending source a, a click on a shape b already connected to a (in
\* either direction) changes neither the history nor the cursor (hence not the
\* graph), and leaves connection mode inactive with no pending source.
C2_DuplicateRejected ==
    [][\A b \in EntityIds : \A newName \in TextValues :
          ( /\ relationshipCreation.active
            /\ relationshipCreation.fromId # NoId
            /\ relationshipCreation.fromId # b
            /\ \E i \in 1..Len(relationships) :
                  {relationships[i].fromId, relationships[i].toId}
                      = {relationshipCreation.fromId, b}
            /\ EntityClickOn(b, newName) )
          => /\ history' = history
             /\ historyIndex' = historyIndex
             /\ relationshipCreation' = Inactive]_vars

\* the warning has just been shown for an existing relationship
C2_Witness ==
    /\ alertShown
    /\ relationshipCreation = Inactive
    /\ relationships # <<>>
    /\ commits = 0

\* C3: no relationship of any snapshot connects a shape to itself.
C3_NoSelfLoop ==
    \A k \in 1..Len(history) :
        \A i \in 1..Len(history[k].relationships) :
            history[k].relationships[i].fromId # history[k].relationships[i].toId

\* a relationship exists while a source is pending again (its shape can be clicked)
C3_Witness ==
    /\ relationshipCreation.active
    /\ relationshipCreation.fromId \in EntityIds
    /\ \E k \in 1..Len(history) : history[k].relationships # <<>>

\* C4: a click on the pending source while a target is awaited leaves the
\* connection mode (active, same source), the history and the cursor unchanged.
C4_SameSourceIgnored ==
    [][\A id \in EntityIds : \A newName \in TextValues :
          ( /\ relationshipCreation.active
            /\ relationshipCreation.fromId = id
            /\ EntityClickOn(id, newName) )
          => UNCHANGED <<history, historyIndex, relationshipCreation>>]_vars

\* a target is awaited for a source that is on the canvas: the state before
\* and after the ignored click
C4_Witness ==
    /\ relationshipCreation.active
    /\ relationshipCreation.fromId \in EntityIds
    /\ Len(entities) = 2
    /\ commits = 0
    /\ ~alertShown

\* Delete or Backspace reaching handleDeleteSelected, or the delete button
DeleteStep ==
    \/ DeleteButton
    \/ /\ editingEntityId = NoId
       /\ \E e \in KeyEvents : e[1] \in {"Delete", "Backspace"} /\ KeyDownOf(e[1], e[2], e[3])

\* C5: deleting the selected shape s puts exactly one snapshot after the
\* cursor; in it s and every relationship from or to s are absent, and every
\* other shape and relationship is kept, in order.
C5_DeleteCascade ==
    [][(selectedEntityId # NoId /\ DeleteStep) =>
          LET s == selectedEntityId
              snap == history'[Len(history')]
              keptE == {e \in ElementsOf(entities) : e.id # s}
              keptR == {rel \in ElementsOf(relationships) : rel.fromId # s /\ rel.toId # s}
          IN /\ OneSnapshotAppended
             /\ ElementsOf(snap.entities) = keptE
             /\ Len(snap.entities) = Cardinality(keptE)
             /\ ElementsOf(snap.relationships) = keptR
             /\ Len(snap.relationships) = Cardinality(keptR)
             /\ \A i \in 1..Len(snap.entities) : snap.entities[i].id # s
             /\ \A i \in 1..Len(snap.relationships) :
                   snap.relationships[i].fromId # s /\ snap.relationships[i].toId # s]_vars

\* the snapshot just committed lacks a shape of the one below it, and with it
\* the relationship that shape had; the other shape is still there
C5_Witness ==
    /\ commits = 1
    /\ historyIndex >= 1
    /\ selectedEntityId = NoId
    /\ Len(entities) = 1
    /\ relationships = <<>>
    /\ Len(Snapshot(historyIndex - 1).entities) = 2
    /\ Len(Snapshot(historyIndex - 1).relationships) = 1
    /\ entities[1] \in ElementsOf(Snapshot(historyIndex - 1).entities)

\* C6: a commit at cursor c on history h yields h[0..c] followed by the new
\* graph, with the cursor on it (index c+1, the last): the redo tail is
\* dropped and one snapshot is appended, whatever the new graph is.
C6_CommitTruncatesAndAppends ==
    [][commits' >= 1 =>
          /\ OneSnapshotAppended
          /\ historyIndex' = Len(history') - 1]_vars

\* the first shape added was undone and its snapshot dropped by the commit of
\* a second shape; then a commit appended a graph equal to the one before it
C6_Witness ==
    /\ commits = 1
    /\ Len(history) = 3
    /\ historyIndex = 2
    /\ Len(entities) = 1
    /\ entities[1].id = 2
    /\ Snapshot(2) = Snapshot(1)

\* an event that runs handleUndo alone / handleRedo alone
UndoStep == UndoButton \/ (editingEntityId = NoId /\ KeyDownOf("z", TRUE, FALSE))
RedoStep ==
    \/ RedoButton
    \/ editingEntityId = NoId /\ \E shift \in BOOLEAN : KeyDownOf("y", TRUE, shift)

\* C7: undo moves the cursor down by one above 0 and not at 0; redo moves it
\* up by one below the last index and not at the last index; neither changes
\* the snapshot sequence.
C7_UndoRedoCursor ==
    [][/\ UndoStep =>
            /\ history' = history
            /\ historyIndex' = IF historyIndex > 0 THEN historyIndex - 1 ELSE historyIndex
       /\ RedoStep =>
            /\ history' = history
            /\ historyIndex' = IF historyIndex < Len(history) - 1
                               THEN historyIndex + 1 ELSE historyIndex]_vars

\* an undo has been followed by a redo that stopped below the last snapshot
C7_Witness ==
    /\ undoProbe.phase = "idle"
    /\ commits = 0
    /\ Len(history) = 4
    /\ historyIndex = 2
    /\ Snapshot(3) # Snapshot(2)

\* C8: an undo directly after a committed mutation shows the graph as it was
\* before the mutation, and a redo directly after that undo shows the mutated
\* graph.
C8_UndoRedoRoundTrip ==
    /\ undoProbe.phase = "undone" => Snapshot(historyIndex) = undoProbe.before
    /\ undoProbe.phase = "redone" => Snapshot(historyIndex) = undoProbe.after

\* a mutation that changed the graph has been undone and redone
C8_Witness ==
    /\ undoProbe.phase = "redone"
    /\ undoProbe.before # undoProbe.after
    /\ undoProbe.before.entities # <<>>

\* C9: drag-move events leave history and cursor unchanged; the drag-end puts
\* exactly one snapshot after the cursor, in which the dragged shape has the
\* position of its node at release and nothing else differs.
C9_DragCommitsOnce ==
    [][/\ DragMove => UNCHANGED <<history, historyIndex>>
       /\ DragEnd =>
            LET snap == history'[Len(history')]
            IN /\ OneSnapshotAppended
               /\ snap.relationships = relationships
               /\ Len(snap.entities) = Len(entities)
               /\ \A i \in 1..Len(entities) :
                     snap.entities[i] =
                        IF entities[i].id = dragNode.id
                        THEN [entities[i] EXCEPT !.x = dragNode.x, !.y = dragNode.y]
                        ELSE entities[i]]_vars

\* a released shape is stored away from where it was spawned, after a snapshot
\* that has it at the spawn position
C9_Witness ==
    /\ commits = 1
    /\ ~dragging
    /\ historyIndex >= 1
    /\ \E i \in 1..Len(entities) :
          /\ <<entities[i].x, entities[i].y>> \notin SpawnPositions
          /\ i <= Len(Snapshot(historyIndex - 1).entities)
          /\ Snapshot(historyIndex - 1).entities[i].id = entities[i].id
          /\ <<Snapshot(historyIndex - 1).entities[i].x,
               Snapshot(historyIndex - 1).entities[i].y>> \in SpawnPositions

\* the order of the claim, written out
MarkerOrder ==
    <<"ONE_AND_ONLY_ONE", "ZERO_OR_ONE", "ONE_OR_MANY", "ZERO_OR_MANY", "ONE", "MANY">>

\* the marker k places after c in that order, wrapping around
Advanced(c, k) ==
    LET at == CHOOSE i \in 1..6 : MarkerOrder[i] = c
    IN MarkerOrder[((at - 1 + k) % 6) + 1]

\* C10: each click on a marker moves it to the next value of the order
\* ONE_AND_ONLY_ONE, ZERO_OR_ONE, ONE_OR_MANY, ZERO_OR_MANY, ONE, MANY, wrapping
\* from MANY to ONE_AND_ONLY_ONE: after k clicks the marker is k places on, and
\* after six clicks it has its original value.
C10_CardinalityCycle ==
    \A i \in 1..Len(cycle.relationships) :
        LET now == cycle.relationships[i]
            orig == cycle.original[i]
        IN now.id = cycle.relationshipId =>
             /\ cycle.point = "start" =>
                   now.startCardinality = Advanced(orig.startCardinality, cycle.clicks)
             /\ cycle.point = "end" =>
                   now.endCardinality = Advanced(orig.endCardinality, cycle.clicks)
             /\ cycle.clicks = 6 => now = orig

\* six clicks on the end marker of a relationship that started at MANY
C10_Witness ==
    /\ cycle.clicks = 6
    /\ cycle.point = "end"
    /\ cycle.relationshipId = 1
    /\ cycle.original[1].endCardinality = "MANY"
    /\ cycle.relationships[1].endCardinality = "MANY"

\* C11: in every reachable state at most one of selectedEntityId and
\* selectedRelationshipId is set.
C11_SelectionExclusive == selectedEntityId = NoId \/ selectedRelationshipId = NoId

\* a relationship is selected, no shape is, and the selection has outlived an undo
C11_Witness ==
    /\ selectedRelationshipId # NoId
    /\ selectedEntityId = NoId
    /\ Len(entities) = 2
    /\ historyIndex < Len(history) - 1

\* C12: a key event with Ctrl or Cmd, Shift and 'z' (outside a rename) is a
\* redo and only a redo: the cursor goes up by one below the last index and
\* is otherwise unchanged; it never goes down.
C12_CtrlShiftZOnlyRedo ==
    [][(editingEntityId = NoId /\ KeyDownOf("z", TRUE, TRUE)) =>
          historyIndex' = IF historyIndex < Len(history) - 1
                          THEN historyIndex + 1 ELSE historyIndex]_vars

\* C13: while a shape is being renamed, the window shortcuts for undo, redo
\* and Delete/Backspace change neither the history (hence the graph), nor the
\* cursor, nor the selection.
C13_ShortcutsIgnoredWhileEditing ==
    [][\A e \in KeyEvents :
          (editingEntityId # NoId /\ KeyDownOf(e[1], e[2], e[3]))
          => UNCHANGED <<history, historyIndex, selectedEntityId,
                         selectedRelationshipId, editingEntityId>>]_vars

\* a rename is open with snapshots on both sides of the cursor, so that an
\* undo and a redo would both move it
C13_Witness ==
    /\ editingEntityId \in EntityIds
    /\ historyIndex > 0
    /\ historyIndex < Len(history) - 1

\* C14: in the second iteration, Ctrl/Cmd+Z, Ctrl/Cmd+Shift+Z and Ctrl/Cmd+Y
\* pressed while a shape is being renamed (editingEntityId set, its textarea
\* shown) do not move the history cursor.
C14_ShortcutsIgnoredWhileEditing2 ==
    [][\A e \in KeyEvents :
          ( /\ editingEntityId # NoId
            /\ editingEntity2(Render)
            /\ e[2]
            /\ e[1] \in {"z", "y"}
            /\ KeyDownOf2(e[1], e[2], e[3]) )
          => historyIndex' = historyIndex]_vars

RelationshipIds == {relationships[i].id : i \in 1..Len(relationships)}

\* C15: an operation on an id that the current graph no longer holds is a
\* no-op: a delete whose selected shape or relationship is absent, a drag-end
\* for an absent shape and a rename of an absent shape leave the snapshot
\* sequence (redo tail included) and the cursor unchanged.
C15_AbsentIdNoOp ==
    [][( \/ /\ DeleteStep
            /\ \/ selectedEntityId # NoId /\ selectedEntityId \notin EntityIds
               \/ /\ selectedEntityId = NoId
                  /\ selectedRelationshipId # NoId
                  /\ selectedRelationshipId \notin RelationshipIds
         \/ DragEnd /\ dragNode.id \notin EntityIds
         \/ /\ editingEntityId # NoId
            /\ editingEntityId \notin EntityIds
            /\ TextareaBlur \/ TextareaKeyDown )
       => UNCHANGED <<history, historyIndex>>]_vars

\* ids of the shapes of all snapshots
AllEntityIds ==
    UNION {{history[k].entities[i].id : i \in 1..Len(history[k].entities)} :
              k \in 1..Len(history)}

\* C16: adding a shape of kind K to a graph with c shapes of kind K appends
\* one snapshot whose last shape is new: fresh id, name "K n" with n = c + 1,
\* kind K, extent 120 x 120 for Action and 150 x 75 otherwise; the shapes
\* that existed and the relationships are unchanged.
C16_AddShape ==
    [][\A type \in EntityTypes : \A pos \in SpawnPositions :
          AddEntityOf(type, pos) =>
             LET snap == history'[Len(history')]
                 c == Cardinality({i \in 1..Len(entities) : entities[i].type = type})
                 new == snap.entities[Len(snap.entities)]
             IN /\ OneSnapshotAppended
                /\ Len(snap.entities) = Len(entities) + 1
                /\ SubSeq(snap.entities, 1, Len(entities)) = entities
                /\ snap.relationships = relationships
                /\ new.id \notin AllEntityIds
                /\ new.id # NoId
                /\ new.name = type \o " " \o ToString(c + 1)
                /\ new.type = type
                /\ new.width = (IF type = "Action" THEN 120 ELSE 150)
                /\ new.height = (IF type = "Action" THEN 120 ELSE 75)
                /\ new.width > 0 /\ new.height > 0]_vars

\* a second Action has just been added next to an Action and is "Action 2"
C16_Witness ==
    /\ commits = 1
    /\ Len(entities) = 2
    /\ Len(Snapshot(historyIndex - 1).entities) = 1
    /\ entities[1].type = "Action"
    /\ entities[2].name = "Action 2"
    /\ entities[2].width = 120
    /\ entities[2].height = 120

\* C17: Escape in the rename textarea closes the rename without renaming:
\* editingEntityId becomes null and neither the history (so no shape's name)
\* nor the cursor changes.
C17_EscapeDiscards ==
    [][\A shift \in BOOLEAN : \A newName \in TextValues :
          TextareaKeyDownOf("Escape", shift, newName) =>
             /\ editingEntityId' = NoId
             /\ UNCHANGED <<history, historyIndex>>]_vars

\* a rename has been closed without a commit; the shape has its default name
C17_Witness ==
    /\ editingEntityId = NoId
    /\ commits = 0
    /\ selectedEntityId = NoId
    /\ selectedRelationshipId = NoId
    /\ ~relationshipCreation.active
    /\ Len(history) = 2
    /\ historyIndex = 1
    /\ entities[1].name = "Entity 1"

\* the graph after renaming shape id to newName and nothing else
Renamed(id, newName) ==
    [entities |-> [i \in 1..Len(entities) |->
                      IF entities[i].id = id
                      THEN [entities[i] EXCEPT !.name = newName]
                      ELSE entities[i]],
     relationships |-> relationships]

\* C18: Enter without Shift, or a blur, while shape s is being renamed puts
\* exactly one snapshot after the cursor, equal to the current graph except
\* that s has the text of the textarea as its name, and closes the rename;
\* every text is taken, the empty one too.
C18_RenameCommits ==
    [][/\ \A newName \in TextValues :
            TextareaKeyDownOf("Enter", FALSE, newName) =>
               /\ OneSnapshotAppended
               /\ history'[Len(history')] = Renamed(editingEntityId, newName)
               /\ editingEntityId' = NoId
       /\ TextareaBlur =>
            /\ OneSnapshotAppended
            /\ \E newName \in TextValues :
                  history'[Len(history')] = Renamed(editingEntityId, newName)
            /\ editingEntityId' = NoId
       /\ editingEntityId # NoId /\ (TextareaBlur \/ TextareaKeyDown)
            => editingEntityId \in EntityIds]_vars

\* a shape that had its default name has just been committed with the empty
\* name, next to a shape that kept its own
C18_Witness ==
    /\ commits = 1
    /\ editingEntityId = NoId
    /\ historyIndex >= 2
    /\ Len(entities) = 2
    /\ entities[1].name = ""
    /\ Snapshot(historyIndex - 1).entities[1].name = "Entity 1"
    /\ entities[2] = Snapshot(historyIndex - 1).entities[2]

C20_CreationProtocol ==
    [][/\ (~relationshipCreation.active /\ ToggleRelationshipCreation)
            => relationshipCreation' = [active |-> TRUE, fromId |-> NoId]
       /\ \A id \in EntityIds : \A newName \in TextValues :
            ( /\ relationshipCreation.active
              /\ relationshipCreation.fromId = NoId
              /\ EntityClickOn(id, newName) )
            => /\ relationshipCreation' = [active |-> TRUE, fromId |-> id]
               /\ UNCHANGED <<history, historyIndex>>
       /\ \A id \in EntityIds : \A newName \in TextValues :
            ( /\ relationshipCreation.active
              /\ relationshipCreation.fromId # NoId
              /\ relationshipCreation.fromId # id
              /\ EntityClickOn(id, newName) )
            => relationshipCreation' = Inactive]_vars

\* the protocol has just ended with a relationship between the two shapes
C20_Witness ==
    /\ commits = 1
    /\ relationshipCreation = Inactive
    /\ historyIndex >= 1
    /\ Len(relationships) = 1
    /\ Snapshot(historyIndex - 1).relationships = <<>>
    /\ Snapshot(historyIndex - 1).entities = entities
    /\ relationships[1].fromId # relationships[1].toId

\* C21: with a pending source a, a click on another shape b that no
\* relationship joins to a puts exactly one snapshot after the cursor: the
\* shapes and the relationships that existed are as before, followed by one
\* new relationship from a to b with both cardinalities ONE_AND_ONLY_ONE.
C21_ConnectAppendsOne ==
    [][\A b \in EntityIds : \A newName \in TextValues :
          ( /\ relationshipCreation.active
            /\ relationshipCreation.fromId # NoId
            /\ relationshipCreation.fromId # b
            /\ ~\E i \in 1..Len(relationships) :
                  {relationships[i].fromId, relationships[i].toId}
                      = {relationshipCreation.fromId, b}
            /\ EntityClickOn(b, newName) )
          => LET snap == history'[Len(history')]
                 new == snap.relationships[Len(snap.relationships)]
             IN /\ OneSnapshotAppended
                /\ snap.entities = entities
                /\ Len(snap.relationships) = Len(relationships) + 1
                /\ SubSeq(snap.relationships, 1, Len(relationships)) = relationships
                /\ new.fromId = relationshipCreation.fromId
                /\ new.toId = b
                /\ new.startCardinality = "ONE_AND_ONLY_ONE"
                /\ new.endCardinality = "ONE_AND_ONLY_ONE"
                /\ new.id \notin RelationshipIds]_vars

\* a relationship from the second shape to the first has just been created
C21_Witness ==
    /\ commits = 1
    /\ historyIndex >= 1
    /\ Len(entities) = 2
    /\ Len(relationships) = 1
    /\ relationships[1].fromId = entities[2].id
    /\ relationships[1].toId = entities[1].id
    /\ relationships[1].startCardinality = "ONE_AND_ONLY_ONE"
    /\ relationships[1].endCardinality = "ONE_AND_ONLY_ONE"
    /\ Snapshot(historyIndex - 1) = [entities |-> entities, relationships |-> <<>>]

\* C22: a click on the empty canvas, from any state, leaves no shape and no
\* relationship selected and the creation mode inactive with no pending
\* source; when no rename is open it changes neither history nor cursor.
C22_StageClickClears ==
    [][StageClick =>
          /\ selectedEntityId' = NoId
          /\ selectedRelationshipId' = NoId
          /\ relationshipCreation' = Inactive
          /\ editingEntityId = NoId => UNCHANGED <<history, historyIndex>>]_vars

\* everything is cleared and nothing was committed, on a graph with a
\* relationship and with a redo tail: what a canvas click leaves behind
C22_Witness ==
    /\ selectedEntityId = NoId
    /\ selectedRelationshipId = NoId
    /\ relationshipCreation = Inactive
    /\ editingEntityId = NoId
    /\ commits = 0
    /\ ~alertShown
    /\ Len(relationships) = 1
    /\ historyIndex = Len(history) - 2

\* C23: once an export has completed, the selected shape, the selected
\* relationship and the shape being renamed are the ones from immediately
\* before the export was requested.
C23_ExportRestoresSelection ==
    [][ExportImage =>
          UNCHANGED <<selectedEntityId, selectedRelationshipId, editingEntityId>>]_vars

\* the i-th edge midpoint of a shape's bounding box, in half units, in the
\* order top, right, bottom, left
MidpointAt(e, i) ==
    IF i = 1 THEN <<2 * e.x + e.width, 2 * e.y>>
    ELSE IF i = 2 THEN <<2 * e.x + 2 * e.width, 2 * e.y + e.height>>
    ELSE IF i = 3 THEN <<2 * e.x + e.width, 2 * e.y + 2 * e.height>>
    ELSE <<2 * e.x, 2 * e.y + e.height>>

SquaredDistance(p, q) == (p[1] - q[1]) * (p[1] - q[1]) + (p[2] - q[2]) * (p[2] - q[2])

\* C24: the line returned for two shapes starts at an edge midpoint of the
\* first and ends at an edge midpoint of the second; no other of the 16
\* pairs is closer, and every pair just as close comes later in the order
\* (first shape's midpoints top, right, bottom, left in the outer loop, the
\* second shape's in the inner one).
C24_ClosestAnchors ==
    route.computed =>
       \E i \in 1..4 : \E j \in 1..4 :
          LET a == MidpointAt(route.fromEntity, i)
              b == MidpointAt(route.toEntity, j)
          IN /\ route.points = <<a[1], a[2], b[1], b[2]>>
             /\ \A i2 \in 1..4 : \A j2 \in 1..4 :
                   LET d2 == SquaredDistance(MidpointAt(route.fromEntity, i2),
                                             MidpointAt(route.toEntity, j2))
                       d == SquaredDistance(a, b)
                   IN /\ d2 >= d
                      /\ d2 = d => 4 * (i2 - 1) + j2 >= 4 * (i - 1) + j

\* two equal shapes on a diagonal: the top-to-left pair and the right-to-bottom
\* pair are equally close, and the line is the first of them
C24_Witness ==
    /\ route.computed
    /\ route.fromEntity = [x |-> 0, y |-> 3, width |-> 2, height |-> 2]
    /\ route.toEntity = [x |-> 3, y |-> 0, width |-> 2, height |-> 2]
    /\ route.points = <<2, 6, 6, 2>>

\* C25: for all shapes A and B the line for (B, A) has the endpoints of the
\* line for (A, B) in reversed order.
C25_RouteSymmetric ==
    route.computed =>
       route.swapped = <<route.points[3], route.points[4],
                         route.points[1], route.points[2]>>

\* C26: a stored snapshot never changes while its index stays in the
\* history.  Every step keeps every snapshot up to and including the old
\* cursor where it was, with the same shapes and connections, and a step
\* that commits nothing leaves the whole history as it was.
C26_SnapshotsImmutable ==
    [][/\ Len(history') >= historyIndex + 1
       /\ \A i \in 1..(historyIndex + 1) : history'[i] = history[i]
       /\ (commits' = 0 => history' = history)]_vars

\* a commit has just appended a snapshot above two earlier ones; the graph
\* the handler started from is still the snapshot below the cursor, and the
\* new snapshot differs from it
C26_Witness ==
    /\ commits >= 1
    /\ Len(history) >= 3
    /\ undoProbe.phase = "committed"
    /\ undoProbe.before.entities # <<>>
    /\ history[historyIndex] = undoProbe.before
    /\ history[historyIndex + 1] # history[historyIndex]

C28_PlusIdsUnique ==
    [][/\ plusEvent' = "addEntity" => Len(plusEntities') = Len(plusEntities) + 1
       /\ \A i \in 1..Len(plusRelationships') : \A j \in 1..Len(plusRelationships') :
              i # j => plusRelationships'[i].id # plusRelationships'[j].id]_vars

\* C29: every connection of the current graph joins two shapes of the
\* current graph.
C29_NoDanglingConnection ==
    \A i \in 1..Len(relationships) :
        /\ relationships[i].fromId \in EntityIds
        /\ relationships[i].toId \in EntityIds

\* handleUndo applied n times, each time to the state the last one left
RECURSIVE UndoTimes(_, _)
UndoTimes(r, n) == IF n = 0 THEN r ELSE UndoTimes(handleUndo(r, r), n - 1)

\* C30: the history is never empty, the cursor is an index of it, the
\* snapshot at index 0 is the empty graph, and undoing cursor-many times
\* leads to that empty graph.
C30_HistoryWellFormed ==
    /\ Len(history) >= 1
    /\ 0 <= historyIndex
    /\ historyIndex <= Len(history) - 1
    /\ history[1] = [entities |-> <<>>, relationships |-> <<>>]
    /\ UndoTimes(Render, historyIndex).historyIndex = 0
    /\ entitiesOf(UndoTimes(Render, historyIndex)) = <<>>
    /\ relationshipsOf(UndoTimes(Render, historyIndex)) = <<>>

\* the cursor is in the middle of a history of three snapshots and the
\* current graph is not empty
C30_Witness ==
    /\ Len(history) >= 3
    /\ historyIndex >= 1
    /\ historyIndex < Len(history) - 1
    /\ entities # <<>>

\* C31: a selected shape is a shape of the current graph and a selected
\* connection is a connection of the current graph.
C31_SelectionInGraph ==
    /\ selectedEntityId # NoId => selectedEntityId \in EntityIds
    /\ selectedRelationshipId # NoId => selectedRelationshipId \in RelationshipIds

\* C32: a recorded pending connection source implies that connection mode
\* is active.
C32_SourceImpliesActive ==
    relationshipCreation.fromId # NoId => relationshipCreation.active

\* connection mode is active and the first shape has been clicked
C32_Witness ==
    /\ relationshipCreation.active
    /\ relationshipCreation.fromId \in EntityIds

\* C33: while a shape is being renamed nothing is selected and connection
\* mode is inactive.
C33_EditingExcludesSelection ==
    editingEntityId # NoId =>
        /\ selectedEntityId = NoId
        /\ selectedRelationshipId = NoId
        /\ ~relationshipCreation.active
        /\ relationshipCreation.fromId = NoId

\* a shape is being renamed in a graph that also holds a connection, which
\* could have been selected
C33_Witness ==
    /\ editingEntityId \in EntityIds
    /\ Len(relationships) >= 1

\* every shape of every snapshot: <<index of the snapshot, index in it>>
ShapesInHistory ==
    {ik \in (1..Len(history)) \X (1..MaxEntities) : ik[2] <= Len(history[ik[1]].entities)}

\* the step releases a dragged shape
DragEndStep == dragNode.id # NoId /\ dragNode'.id = NoId

\* the step commits the text of the rename textarea
RenameStep == editingEntityId # NoId /\ editingEntityId' = NoId /\ commits' >= 1

\* C34: a shape has the same kind, width and height in every snapshot it
\* appears in.  A drag-end changes only x and y of the dragged shape, a
\* rename only the name of the renamed shape; every other shape and every
\* connection stays as it was.
C34_ShapeFrame ==
    /\ [](\A a \in ShapesInHistory : \A b \in ShapesInHistory :
             LET ea == history[a[1]].entities[a[2]]
                 eb == history[b[1]].entities[b[2]]
             IN ea.id = eb.id =>
                   ea.type = eb.type /\ ea.width = eb.width /\ ea.height = eb.height)
    /\ [][/\ DragEndStep =>
             /\ relationships' = relationships
             /\ Len(entities') = Len(entities)
             /\ \A k \in 1..Len(entities) :
                   entities'[k] = IF entities[k].id = dragNode.id
                                  THEN [entities[k] EXCEPT !.x = dragNode.x, !.y = dragNode.y]
                                  ELSE entities[k]
       /\ RenameStep =>
             /\ relationships' = relationships
             /\ Len(entities') = Len(entities)
             /\ \A k \in 1..Len(entities) :
                   IF entities[k].id = editingEntityId
                   THEN [entities'[k] EXCEPT !.name = entities[k].name] = entities[k]
                   ELSE entities'[k] = entities[k]]_vars

\* the history holds a drag (two neighbouring snapshots differ in the
\* position of a shape) and a rename (two differ in the name of a shape)
C34_Witness ==
    /\ \E i \in 1..(Len(history) - 1) : \E k \in 1..Len(history[i].entities) :
          /\ Len(history[i + 1].entities) >= k
          /\ history[i + 1].entities[k].id = history[i].entities[k].id
          /\ history[i + 1].entities[k].x # history[i].entities[k].x
    /\ \E i \in 1..(Len(history) - 1) : \E k \in 1..Len(history[i].entities) :
          /\ Len(history[i + 1].entities) >= k
          /\ history[i + 1].entities[k].id = history[i].entities[k].id
          /\ history[i + 1].entities[k].name # history[i].entities[k].name

\* C35: no committed mutation is lost.  A step in which handlers commit
\* appends one snapshot per commit above the old cursor, also when two
\* handlers read the same render, and every shape created in the step is in
\* the current graph afterwards.
C35_NoLostMutation ==
    [][commits' >= 1 =>
          /\ Len(history') = historyIndex + 1 + commits'
          /\ historyIndex' = historyIndex + commits'
          /\ \A id \in nextEntityId..(nextEntityId' - 1) : id \in EntityIds']_vars

====
